---- MODULE Spec2Model ----
(***************************************************************************)
(* gridSculpt: the domain composition and coordinate transformation        *)
(* engine (adaptiveGrid.js, localShapeDeformation.js, cacheModule.js).     *)
(*                                                                         *)
(* Numbers.  A JavaScript number is modelled as a fixed-point integer in   *)
(* units of 1/SCALE (1.0 is SCALE), or as the value NaN.  Products and     *)
(* quotients are rounded to the nearest unit.  Math.cos is Bhaskara's      *)
(* rational approximation (exact at 0, pi/3, pi/2, 2pi/3 and pi, within    *)
(* 0.002 elsewhere), Math.atan2 the quadratic approximation of the arc     *)
(* tangent (within 0.004 rad), Math.exp a truncated series.                *)
(***************************************************************************)
EXTENDS Integers, Sequences, FiniteSets, TLC

\* ------------------------------------------------------------------------
\* Numbers
\* ------------------------------------------------------------------------
SCALE == 10 * 100
NaN == 0 - 999999999
ONE == SCALE
PI == 3141 + 1
HALF_PI == 1570 + 1
TWO_PI == 6282 + 1

IsNaN(a) == a = NaN
\* the one element of a set: a value computed once, for the expressions
\* that use it several times.  The arithmetic below takes its operands
\* through it, so that an operand is evaluated once however often it is used.
Value(singleton) == CHOOSE w \in singleton : TRUE
Abs(a) == IF IsNaN(a) THEN NaN ELSE IF a < 0 THEN 0 - a ELSE a
Min(a, b) == IF IsNaN(a) \/ IsNaN(b) THEN NaN ELSE IF a < b THEN a ELSE b
Max(a, b) == IF IsNaN(a) \/ IsNaN(b) THEN NaN ELSE IF a > b THEN a ELSE b
Add(a, b) ==
  Value({IF IsNaN(x) \/ IsNaN(y) THEN NaN ELSE x + y : x \in {a}, y \in {b}})
Sub(a, b) ==
  Value({IF IsNaN(x) \/ IsNaN(y) THEN NaN ELSE x - y : x \in {a}, y \in {b}})
\* a comparison with NaN is false
Lt(a, b) == ~IsNaN(a) /\ ~IsNaN(b) /\ a < b
Le(a, b) == ~IsNaN(a) /\ ~IsNaN(b) /\ a <= b
Gt(a, b) == Lt(b, a)

\* the integer quotient a / b rounded to the nearest integer, b > 0
RDivAbs(a, b) == (a \div b) + (IF 2 * (a % b) >= b THEN 1 ELSE 0)
RDiv(a, b) == IF a >= 0 THEN RDivAbs(a, b) ELSE 0 - RDivAbs(0 - a, b)
SDiv(a, b) == IF b > 0 THEN RDiv(a, b) ELSE RDiv(0 - a, 0 - b)
\* the product and the quotient of two fixed-point numbers
\* the product of a, b >= 0, the whole units of a and the rest apart
MulAbs(a, b) == (a \div SCALE) * b + RDivAbs((a % SCALE) * b, SCALE)
Mul(a, b) ==
  Value({IF IsNaN(x) \/ IsNaN(y) THEN NaN
         ELSE IF (x >= 0) = (y >= 0) THEN MulAbs(Abs(x), Abs(y))
         ELSE 0 - MulAbs(Abs(x), Abs(y)) : x \in {a}, y \in {b}})
Div(a, b) ==
  Value({IF IsNaN(x) \/ IsNaN(y) \/ y = 0 THEN NaN ELSE SDiv(x * SCALE, y) :
           x \in {a}, y \in {b}})

RECURSIVE SqrtIter(_, _, _)
SqrtIter(n, lo, hi) ==
  IF lo >= hi THEN lo
  ELSE Value({IF mid * mid <= n THEN SqrtIter(n, mid, hi)
              ELSE SqrtIter(n, lo, mid - 1) : mid \in {(lo + hi + 1) \div 2}})
\* Math.sqrt of an integer, rounded to the nearest integer
ISqrt(n) ==
  Value({Value({IF (s + 1) * (s + 1) - m < m - s * s THEN s + 1 ELSE s :
                  s \in {SqrtIter(m, 0, 46339)}}) : m \in {n}})
\* the numbers whose squares add up within the integers of the model
NEAR == 30 * SCALE
\* the unit far numbers are measured in before they are squared
COARSE == 32
\* Math.hypot of two fixed-point numbers: exact when one of them is 0, to
\* the nearest unit within NEAR, to COARSE units beyond
Hypot(a, b) ==
  Value({IF IsNaN(x) \/ IsNaN(y) THEN NaN
         ELSE IF y = 0 THEN Abs(x)
         ELSE IF x = 0 THEN Abs(y)
         ELSE IF Abs(x) <= NEAR /\ Abs(y) <= NEAR THEN ISqrt(x * x + y * y)
         ELSE COARSE * ISqrt(RDiv(x, COARSE) * RDiv(x, COARSE)
                               + RDiv(y, COARSE) * RDiv(y, COARSE)) :
           x \in {a}, y \in {b}})

\* Math.cos(Math.PI * t) for t in [0, 1]
CosPiHalf(t) == RDiv(SCALE * (SCALE * SCALE - 4 * t * t), SCALE * SCALE + t * t)
CosPi(t) ==
  IF IsNaN(t) THEN NaN
  ELSE IF t <= SCALE \div 2 THEN CosPiHalf(t)
  ELSE 0 - CosPiHalf(SCALE - t)
\* Math.cos and Math.sin of an angle in radians
CosRad(a) ==
  IF IsNaN(a) THEN NaN
  ELSE LET r == Abs(a) % TWO_PI
           h == IF r > PI THEN TWO_PI - r ELSE r
       IN  CosPi(Min(SCALE, RDiv(h * SCALE, PI)))
SinRad(a) == CosRad(Sub(a, HALF_PI))
\* Math.atan2(y, x)
AtanUnit(q) == RDiv(785 * q + RDiv(273 * q * (SCALE - q), SCALE), SCALE)
Atan2(y, x) ==
  IF IsNaN(y) \/ IsNaN(x) THEN NaN
  ELSE IF x = 0 /\ y = 0 THEN 0
  ELSE LET ax == Abs(x)
           ay == Abs(y)
           base == IF ay <= ax THEN AtanUnit(RDiv(ay * SCALE, ax))
                   ELSE HALF_PI - AtanUnit(RDiv(ax * SCALE, ay))
           half == IF x < 0 THEN PI - base ELSE base
       IN  IF y < 0 THEN 0 - half ELSE half
\* Math.exp(-u) for u >= 0
ExpNeg(u) ==
  IF IsNaN(u) THEN NaN
  ELSE IF u >= 8 * SCALE THEN 0
  ELSE LET u2 == Mul(u, u)
           u3 == Mul(u2, u)
           u4 == Mul(u3, u)
       IN  Div(ONE, ONE + u + u2 \div 2 + u3 \div 6 + u4 \div 24)

Point(x, y) == [x |-> x, y |-> y]

\* ------------------------------------------------------------------------
\* localShapeDeformation.js: mathematical tools
\* ------------------------------------------------------------------------
\* mathConstants.EPSILON, 1e-10: below the resolution 1/SCALE, so that the
\* numbers under EPSILON are those represented by 0
EPSILON == 0
\* the magnitude 1e6 of the point returned at a singularity
SPIKE == 1000 * 1000

Complex(re, im) == [re |-> re, im |-> im]
complexAdd(z1, z2) == Complex(Add(z1.re, z2.re), Add(z1.im, z2.im))
complexMultiply(z1, z2) ==
  Complex(Sub(Mul(z1.re, z2.re), Mul(z1.im, z2.im)),
          Add(Mul(z1.re, z2.im), Mul(z1.im, z2.re)))
complexQuotient(z1, z2, denominator) ==
  Complex(Div(Add(Mul(z1.re, z2.re), Mul(z1.im, z2.im)), denominator),
          Div(Sub(Mul(z1.im, z2.re), Mul(z1.re, z2.im)), denominator))
complexDivide(z1, z2) ==
  complexQuotient(z1, z2, Add(Mul(z2.re, z2.re), Mul(z2.im, z2.im)))
complexAbs(z) == Hypot(z.re, z.im)
complexArg(z) == Atan2(z.im, z.re)

\* the point returned at a singularity, in the direction of the numerator
mobiusSpike(direction) ==
  Complex(IF IsNaN(direction) THEN NaN ELSE CosRad(direction) * SPIKE,
          IF IsNaN(direction) THEN NaN ELSE SinRad(direction) * SPIKE)
mobiusQuotient(numerator, denominator) ==
  IF Le(complexAbs(denominator), EPSILON)
  THEN mobiusSpike(complexArg(numerator))
  ELSE complexDivide(numerator, denominator)
mobiusTransform(z, a, b, c, d) ==
  mobiusQuotient(complexAdd(complexMultiply(a, z), b), complexAdd(complexMultiply(c, z), d))

\* p is {x, y} going forward and {x, y, z} going backward; a missing z is
\* undefined, and arithmetic on it gives NaN
stereographicForward(z, rr, center, radius) ==
  [x |-> Add(Mul(Mul(Div(2 * ONE, Add(ONE, rr)), z.re), radius), center.x),
   y |-> Add(Mul(Mul(Div(2 * ONE, Add(ONE, rr)), z.im), radius), center.y),
   z |-> Mul(Div(Sub(rr, ONE), Add(rr, ONE)), radius)]
stereographicBackward(p, pz, center, radius) ==
  IF Le(Abs(Sub(pz, radius)), EPSILON)
  THEN [x |-> center.x, y |-> center.y]
  ELSE [x |-> Add(Mul(p.x, Div(radius, Sub(radius, pz))), center.x),
        y |-> Add(Mul(p.y, Div(radius, Sub(radius, pz))), center.y)]
\* the square of a number
Square(r) == Mul(r, r)
stereographicProjection(p, center, radius, direction) ==
  IF direction > 0
  THEN stereographicForward(
         Complex(Div(Sub(p.x, center.x), radius), Div(Sub(p.y, center.y), radius)),
         Square(Hypot(Div(Sub(p.x, center.x), radius), Div(Sub(p.y, center.y), radius))),
         center, radius)
  ELSE stereographicBackward(p, IF "z" \in DOMAIN p THEN p.z ELSE NaN, center, radius)

cylindricalForward(dx, dy, theta, radius) ==
  [x |-> Mul(radius, theta), y |-> Sub(Hypot(dx, dy), radius), theta |-> theta]
cylindricalBackward(theta, r, center) ==
  [x |-> Add(center.x, Mul(r, CosRad(theta))),
   y |-> Add(center.y, Mul(r, SinRad(theta)))]
cylindricalMapping(p, center, radius, direction) ==
  IF direction > 0
  THEN cylindricalForward(Sub(p.x, center.x), Sub(p.y, center.y),
                          Atan2(Sub(p.y, center.y), Sub(p.x, center.x)), radius)
  ELSE cylindricalBackward(Div(p.x, radius), Add(p.y, radius), center)

\* the point {x: mappedZ.re, y: mappedZ.im}
complexPoint(mappedZ) == [x |-> mappedZ.re, y |-> mappedZ.im]
conicMapping(p, center, radius, eccentricity, direction) ==
  complexPoint(
    mobiusTransform(
      Complex(Div(Sub(p.x, center.x), radius), Div(Sub(p.y, center.y), radius)),
      Complex(ONE, 0), Complex(0, 0),
      IF direction > 0 THEN Complex(eccentricity, 0) ELSE Complex(0 - eccentricity, 0),
      Complex(ONE, 0)))

\* ------------------------------------------------------------------------
\* localShapeDeformation.js: blending functions
\* ------------------------------------------------------------------------
BlendModes == {"sharp", "linear", "smooth"}

blendSharp(distance, radius) == IF Le(distance, radius) THEN ONE ELSE 0
\* a faulty linear profile: the weight left unclamped
blendLinearUnclamped(distance, radius) == Sub(ONE, Div(distance, radius))
blendLinear(distance, radius) == Max(0, Sub(ONE, Div(distance, radius)))
\* 0.5 * (1 + Math.cos(Math.PI * t))
halfCosine(t) == IF IsNaN(t) THEN NaN ELSE RDiv(ONE + CosPi(t), 2)
blendSmooth(distance, radius) == halfCosine(Min(ONE, Div(distance, radius)))
blendingFunctions(mode, distance, radius) ==
  CASE mode = "sharp" -> blendSharp(distance, radius)
    [] mode = "linear" -> blendLinear(distance, radius)
    [] mode = "smooth" -> blendSmooth(distance, radius)


\* ------------------------------------------------------------------------
\* localShapeDeformation.js: the domain framework
\* ------------------------------------------------------------------------
\* A configuration object is a record holding the properties the caller
\* gave; a property it does not hold reads as undefined.  options holds the
\* one option the engine reads, eccentricity, 0 when it is not given.
NoOptions == [eccentricity |-> 0]
\* a || b on numbers: 0 and NaN are falsy
OrNum(a, b) == IF a = 0 \/ IsNaN(a) THEN b ELSE a
NumProp(config, name, default) ==
  IF name \in DOMAIN config THEN OrNum(config[name], default) ELSE default

\* class Domain: constructor(type, config = {})
Domain(cls, type, config) ==
  [cls |-> cls,
   type |-> type,
   center |-> IF "center" \in DOMAIN config THEN config.center ELSE Point(0, 0),
   radius |-> NumProp(config, "radius", 100 * SCALE),
   amplitude |-> NumProp(config, "amplitude", 0),
   blendMode |-> IF "blendMode" \in DOMAIN config THEN config.blendMode ELSE "smooth",
   options |-> IF "options" \in DOMAIN config THEN config.options ELSE NoOptions]

\* The three classes below declare constructor(config) and pass their own
\* type name to Domain; called with (type, config) they take the type
\* string for their configuration.
NoiseDomain(config) ==
  [scale |-> NumProp(config, "scale", SCALE \div 10),
   octaves |-> NumProp(config, "octaves", 3),
   persistence |-> NumProp(config, "persistence", SCALE \div 2)]
  @@ Domain("NoiseDomain", "noise", config)
HarmonicDomain(config) ==
  [freqX |-> NumProp(config, "freqX", 3 * SCALE),
   freqY |-> NumProp(config, "freqY", 2 * SCALE),
   phase |-> NumProp(config, "phase", 0)]
  @@ Domain("HarmonicDomain", "harmonic", config)
GaussianCurvatureDomain(config) ==
  [spread |-> NumProp(config, "spread", 4 * SCALE)]
  @@ Domain("GaussianCurvatureDomain", "gaussian-curvature", config)

\* Domain.weightAt
weightAt(domain, point) ==
  LET distance == Hypot(Sub(point.x, domain.center.x), Sub(point.y, domain.center.y))
  IN  blendingFunctions(domain.blendMode, distance, domain.radius)

\* NoiseDomain.#singleOctaveNoise: both inner #lerp(u, grad) calls leave the
\* third argument out, so a + undefined * (b - a) is NaN whatever the
\* permutation table holds
singleOctaveNoise(x, y) == NaN
\* NoiseDomain.#noise
RECURSIVE noiseOctaves(_, _, _, _, _, _, _, _)
noiseOctaves(domain, x, y, i, total, frequency, amplitude, maxValue) ==
  IF i >= domain.octaves THEN Div(total, maxValue)
  ELSE noiseOctaves(domain, x, y, i + 1,
                    Add(total, Mul(singleOctaveNoise(Mul(x, frequency), Mul(y, frequency)),
                                   amplitude)),
                    2 * frequency, Mul(amplitude, domain.persistence),
                    Add(maxValue, amplitude))
noise(domain, x, y) == noiseOctaves(domain, x, y, 0, 0, ONE, ONE, 0)

NoiseTransform(domain, point) ==
  LET noiseVal == Mul(noise(domain,
                            Mul(Sub(point.x, domain.center.x), domain.scale),
                            Mul(Sub(point.y, domain.center.y), domain.scale)),
                      domain.amplitude)
  IN  [x |-> Add(point.x, noiseVal), y |-> Add(point.y, noiseVal)]

HarmonicTransform(domain, point) ==
  LET dx == Sub(point.x, domain.center.x)
      dy == Sub(point.y, domain.center.y)
  IN  [x |-> Add(point.x, Mul(SinRad(Add(Mul(dx, domain.freqX), domain.phase)),
                              domain.amplitude)),
       y |-> Add(point.y, Mul(CosRad(Add(Mul(dy, domain.freqY), domain.phase)),
                              domain.amplitude))]

bumps ==
  << [x |-> SCALE \div 2, y |-> SCALE \div 2, sign |-> 1],
     [x |-> 0 - SCALE \div 2, y |-> 0 - SCALE \div 2, sign |-> 1],
     [x |-> SCALE \div 2, y |-> 0 - SCALE \div 2, sign |-> 0 - 1],
     [x |-> 0 - SCALE \div 2, y |-> SCALE \div 2, sign |-> 0 - 1] >>
RECURSIVE bumpSum(_, _, _, _)
bumpSum(domain, u, v, i) ==
  IF i > Len(bumps) THEN 0
  ELSE LET dx == Sub(u, bumps[i].x)
           dy == Sub(v, bumps[i].y)
           distSq == Add(Mul(dx, dx), Mul(dy, dy))
           term == ExpNeg(Mul(distSq, domain.spread))
       IN  Add(IF IsNaN(term) THEN NaN ELSE bumps[i].sign * term,
               bumpSum(domain, u, v, i + 1))
GaussianCurvatureTransform(domain, point) ==
  LET u == Div(Sub(point.x, domain.center.x), domain.radius)
      v == Div(Sub(point.y, domain.center.y), domain.radius)
      deformation == bumpSum(domain, u, v, 1)
  IN  [x |-> Add(point.x, Mul(deformation, domain.amplitude)),
       y |-> Add(point.y, Mul(deformation, domain.amplitude))]

\* domain.transform(point, direction): the method of the domain's class
transform(domain, point, direction) ==
  CASE domain.cls = "SphericalDomain" ->
         stereographicProjection(point, domain.center, domain.radius, direction)
    [] domain.cls = "CylindricalDomain" ->
         cylindricalMapping(point, domain.center, domain.radius, direction)
    [] domain.cls = "ConicDomain" ->
         conicMapping(point, domain.center, domain.radius,
                      OrNum(domain.options.eccentricity, SCALE \div 2), direction)
    [] domain.cls = "NoiseDomain" -> NoiseTransform(domain, point)
    [] domain.cls = "HarmonicDomain" -> HarmonicTransform(domain, point)
    [] domain.cls = "GaussianCurvatureDomain" -> GaussianCurvatureTransform(domain, point)

\* ------------------------------------------------------------------------
\* localShapeDeformation.js: DomainFactory
\* ------------------------------------------------------------------------
\* the keys of constructorMap
RecognizedTypes ==
  {"spherical", "cylindrical", "conic", "noise", "harmonic", "gaussian-curvature"}
\* DOMAIN_TYPES, the type names the module exports
DOMAIN_TYPES == RecognizedTypes \cup {"flat"}
\* constructorMap is an object literal: a key it does not hold is looked up
\* in Object.prototype, where "constructor" is the function Object and
\* "toString" a function that is no constructor
TypeValues == DOMAIN_TYPES \cup {"unknown", "toString", "constructor"}

\* a string read as a configuration object holds none of the properties
StringAsConfig(s) == [primitive |-> s]

Returned(v) == [threw |-> FALSE, value |-> v]
Thrown(e) == [threw |-> TRUE, error |-> e]

\* constructorMap[type], by the kind of value found
constructorMap(type) ==
  CASE type = "spherical" -> "SphericalDomain"
    [] type = "cylindrical" -> "CylindricalDomain"
    [] type = "conic" -> "ConicDomain"
    [] type = "noise" -> "NoiseDomain"
    [] type = "harmonic" -> "HarmonicDomain"
    [] type = "gaussian-curvature" -> "GaussianCurvatureDomain"
    [] type = "constructor" -> "Object"
    [] type = "toString" -> "Object.prototype.toString"
    [] OTHER -> "undefined"

\* DomainFactory.create(type, config)
DomainFactoryCreate(type, config) ==
  LET DomainConstructor == constructorMap(type)
  IN  CASE DomainConstructor = "undefined" -> Thrown("Error")
        [] DomainConstructor = "Object.prototype.toString" -> Thrown("TypeError")
        [] DomainConstructor = "Object" ->
             \* new Object(type, config) is the String object of type
             Returned([cls |-> "String", primitive |-> type])
        [] DomainConstructor \in {"SphericalDomain", "CylindricalDomain", "ConicDomain"} ->
             Returned(Domain(DomainConstructor, type, config))
        [] DomainConstructor = "NoiseDomain" -> Returned(NoiseDomain(StringAsConfig(type)))
        [] DomainConstructor = "HarmonicDomain" ->
             Returned(HarmonicDomain(StringAsConfig(type)))
        [] DomainConstructor = "GaussianCurvatureDomain" ->
             Returned(GaussianCurvatureDomain(StringAsConfig(type)))
\* createDomain(type, config)
createDomain(type, config) == DomainFactoryCreate(type, config)

\* ------------------------------------------------------------------------
\* localShapeDeformation.js: inversion, curvature, DeformationManager
\* ------------------------------------------------------------------------
\* the defaults of _iterativeInverse(target, tolerance = 0.1, maxIterations = 50)
tolerance == SCALE \div 10
maxIterations == 50
\* 0.5, 0.7, 0.4 and 0.2
HALF == SCALE \div 2
CYLINDRICAL_FACTOR == 7 * (SCALE \div 10)
CONIC_SLOPE == 4 * (SCALE \div 10)
MIN_SIZE_FACTOR == 2 * (SCALE \div 10)

\* guess.x += dx * 0.5; guess.y += dy * 0.5
nudged(guess, dx, dy) ==
  [x |-> Add(guess.x, Mul(dx, HALF)), y |-> Add(guess.y, Mul(dy, HALF))]
\* one iteration of the loop of _iterativeInverse, given the forward
\* transform of the guess: the guess it leaves.  At a break the guess is
\* left as it is, and so it is by every iteration that would follow.
iterationFrom(target, guess, forward) ==
  IF Lt(Hypot(Sub(target.x, forward.x), Sub(target.y, forward.y)), tolerance)
  THEN guess
  ELSE nudged(guess, Sub(target.x, forward.x), Sub(target.y, forward.y))
iteration(domain, target, guess) ==
  Value({iterationFrom(target, guess, forward) : forward \in {transform(domain, guess, 1)}})
\* n iterations of the loop: the first half of them, then the rest
RECURSIVE iterations(_, _, _, _)
iterations(domain, target, guess, n) ==
  IF n = 0 THEN guess
  ELSE IF n = 1 THEN iteration(domain, target, guess)
  ELSE Value({iterations(domain, target, halfway, n - n \div 2) :
                halfway \in {iterations(domain, target, guess, n \div 2)}})
\* Domain._iterativeInverse(target)
iterativeInverse(domain, target) ==
  Value({iterations(domain, t, [x |-> t.x, y |-> t.y], maxIterations) : t \in {target}})
\* Domain.inverse(transformedPoint)
inverse(domain, transformedPoint) == iterativeInverse(domain, transformedPoint)

\* 1 - Math.min(0.5, 1 - (distance / radius) ** 2)
sphericalFactor(ratio) == Sub(ONE, Min(HALF, Sub(ONE, Mul(ratio, ratio))))
\* Domain.curvatureFactor(point)
curvatureFactor(domain, point) ==
  CASE domain.type = "spherical" ->
         sphericalFactor(Div(Hypot(Sub(point.x, domain.center.x),
                                   Sub(point.y, domain.center.y)), domain.radius))
    [] domain.type = "cylindrical" -> CYLINDRICAL_FACTOR
    [] domain.type = "conic" ->
         Sub(ONE, Mul(OrNum(domain.options.eccentricity, HALF), CONIC_SLOPE))
    [] OTHER -> ONE

\* domainConfigs.forEach(config => manager.addDomain(config)): the results
\* of DomainFactory.create(config.type, config), a missing type undefined
addDomains(configs) ==
  [i \in 1..Len(configs) |->
     DomainFactoryCreate(IF "type" \in DOMAIN configs[i] THEN configs[i].type ELSE "undefined",
                         configs[i])]
\* manager.domains when every addDomain returned
managerDomains(added) == [i \in 1..Len(added) |-> added[i].value]
anyThrew(added) == \E i \in 1..Len(added) : added[i].threw

\* a faulty composition: reduce, the first domain's inverse applied first
RECURSIVE inverseTransformForward(_, _, _)
inverseTransformForward(domains, point, i) ==
  IF i = 0 THEN point
  ELSE inverse(domains[i], inverseTransformForward(domains, point, i - 1))
\* DeformationManager.inverseTransform: reduceRight, from domain i down
RECURSIVE inverseTransform(_, _, _)
inverseTransform(domains, point, i) ==
  IF i = 0 THEN point
  ELSE inverseTransform(domains, inverse(domains[i], point), i - 1)
\* inverseTransformPointWithDomains(point, domains, blendMode)
inverseWithManager(added, point) ==
  IF anyThrew(added) THEN Thrown("Error")
  ELSE Returned(inverseTransform(managerDomains(added), point, Len(added)))
inverseTransformPointWithDomains(point, configs, blendMode) ==
  inverseWithManager(addDomains(configs), point)

\* curvatureFactor(point) * (1 - weight) + (1 - weight * 0.5) * weight
sizeFactor(factor, weight) ==
  Add(Mul(factor, Sub(ONE, weight)), Mul(Sub(ONE, Mul(weight, HALF)), weight))
\* a faulty product: a factor of every domain, whatever its weight
RECURSIVE sizeAdjustmentOfAll(_, _, _)
sizeAdjustmentOfAll(domains, point, i) ==
  IF i = 0 THEN ONE
  ELSE Mul(sizeAdjustmentOfAll(domains, point, i - 1),
           sizeFactor(curvatureFactor(domains[i], point), weightAt(domains[i], point)))
\* sizeAdjustment after the first i domains
RECURSIVE sizeAdjustment(_, _, _)
sizeAdjustment(domains, point, i) ==
  IF i = 0 THEN ONE
  ELSE IF Gt(weightAt(domains[i], point), 0)
       THEN Mul(sizeAdjustment(domains, point, i - 1),
                sizeFactor(curvatureFactor(domains[i], point), weightAt(domains[i], point)))
       ELSE sizeAdjustment(domains, point, i - 1)
\* a faulty grid size: the lower bound left out
unboundedGridSize(domains, point, baseSize) ==
  Mul(baseSize, sizeAdjustment(domains, point, Len(domains)))
\* DeformationManager.calculateGridSize(point, baseSize)
calculateGridSize(domains, point, baseSize) ==
  Max(Mul(baseSize, MIN_SIZE_FACTOR),
      Mul(baseSize, sizeAdjustment(domains, point, Len(domains))))
\* calculateEffectiveGridSize(point, domains, baseSize)
gridSizeWithManager(added, point, baseSize) ==
  IF anyThrew(added) THEN Thrown("Error")
  ELSE Returned(calculateGridSize(managerDomains(added), point, baseSize))
calculateEffectiveGridSize(point, configs, baseSize) ==
  gridSizeWithManager(addDomains(configs), point, baseSize)


\* ------------------------------------------------------------------------
\* Bounds and inputs of the model
\* ------------------------------------------------------------------------
\* the largest maxActiveDomains configured
MaxCapacity == 2
\* the number of createTransformationDomain calls that return a domain
MaxCreated == 3
\* the last reading of the clock
MaxClock == 1

P(x, y) == Point(x * SCALE, y * SCALE)
\* the grid size of the model
GridUnit == 4 * SCALE
Centers == {P(0, 0)}
Radii == {6 * SCALE}
OptionValues == {NoOptions}
QueryPoints == {P(4, 0)}
\* the type names given to createTransformationDomain
CreateTypes == {"spherical", "noise", "flat"}
Capacities == 1..MaxCapacity
ViewportInputs == {[width |-> 0, height |-> 0], [width |-> GridUnit, height |-> 0]}
ZoomInputs == {20 * SCALE}
PanInputs == {P(1, 0)}
GridSizes == {GridUnit}

\* ------------------------------------------------------------------------
\* adaptiveGrid.js: createAdaptiveGridModule
\* ------------------------------------------------------------------------
VARIABLES
  transformationDomains,  \* state.transformationDomains
  viewportDimensions,     \* state.viewportDimensions
  zoomLevel,              \* state.zoomLevel
  panOffset,              \* state.panOffset
  mergedParams,           \* mergedParams: the grid and transformations parameters read
  cache,                  \* the cache module's caches, by name
  now,                    \* the clock Date.now() reads
  createdCount,           \* history: the number of domains created so far
  onlyCreates,            \* history: every call so far created a domain
  probe,                  \* the last call of an interface that returns a value
  settings,               \* createSnappingModule: settings
  snapIntensity           \* createCellShapeModule: state.transformState.snapIntensity

gridVars == <<transformationDomains, viewportDimensions, zoomLevel, panOffset,
              mergedParams, cache, now, createdCount, onlyCreates>>
\* the state of the modules built beside the grid module
sideVars == <<settings, snapIntensity>>
vars == <<transformationDomains, viewportDimensions, zoomLevel, panOffset,
          mergedParams, cache, now, createdCount, onlyCreates, probe,
          settings, snapIntensity>>

EmptyMap == << >>
\* cache.set, cache.has and cache.get on one named cache, cache.clear
cacheSet(c, cacheName, key, value) == [c EXCEPT ![cacheName] = (key :> value) @@ @]
cacheHas(c, cacheName, key) == key \in DOMAIN c[cacheName]
cacheGet(c, cacheName, key) == c[cacheName][key]
cacheClear(c, cacheName) == [c EXCEPT ![cacheName] = EmptyMap]

\* the key `${point.x},${point.y}`: the two numbers as text
pointKey(point) == <<point.x, point.y>>

\* transformWeights of calculateBlendingWeights
transformWeights(domains, point) ==
  [i \in 1..Len(domains) |-> [domain |-> domains[i], weight |-> weightAt(domains[i], point)]]
RECURSIVE sumWeights(_, _)
sumWeights(tw, i) ==
  IF i > Len(tw) THEN 0 ELSE Add(tw[i].weight, sumWeights(tw, i + 1))
\* the weights and the flat weight left over by them
withFlatWeight(tw) ==
  [transformWeights |-> tw, flatWeight |-> Max(0, Sub(ONE, sumWeights(tw, 1)))]
\* calculateBlendingWeights on a cache miss
computeBlendingWeights(domains, point) == withFlatWeight(transformWeights(domains, point))
\* calculateBlendingWeights(point): the value returned
calculateBlendingWeights(c, domains, point) ==
  IF cacheHas(c, "blendingCache", pointKey(point))
  THEN cacheGet(c, "blendingCache", pointKey(point))
  ELSE computeBlendingWeights(domains, point)

\* result.x += weight * transformed.x; result.y += weight * transformed.y
accumulate(result, weight, transformed) ==
  [x |-> Add(result.x, Mul(weight, transformed.x)),
   y |-> Add(result.y, Mul(weight, transformed.y))]
\* the forEach of transformPoint: the result after the first i domains
RECURSIVE blend(_, _, _, _)
blend(tw, point, flatWeight, i) ==
  IF i = 0 THEN [x |-> Mul(flatWeight, point.x), y |-> Mul(flatWeight, point.y)]
  ELSE IF Gt(tw[i].weight, 0)
       THEN accumulate(blend(tw, point, flatWeight, i - 1), tw[i].weight,
                       transform(tw[i].domain, point, 1))
       ELSE blend(tw, point, flatWeight, i - 1)
\* transformPoint on a cache miss, given the blending weights
blendPoint(w, point) ==
  IF w.flatWeight = ONE THEN point
  ELSE blend(w.transformWeights, point, w.flatWeight, Len(w.transformWeights))
\* transformPoint(point): the value returned
transformPoint(c, domains, point) ==
  IF cacheHas(c, "transformationCache", pointKey(point))
  THEN cacheGet(c, "transformationCache", pointKey(point))
  ELSE blendPoint(calculateBlendingWeights(c, domains, point), point)

\* The cache after transformPoint has been called on each of the points.  A
\* call reads and writes no entries but those under its own point's key: on
\* a miss it writes its result, and the blending weights unless they are
\* cached.  The calls of a loop are therefore independent of their order,
\* and each is evaluated against the cache c the loop started with.
transformPoints(c, domains, points) ==
  [c EXCEPT
     !["transformationCache"] =
        [key \in DOMAIN @ \cup {pointKey(p) : p \in points} |->
           IF key \in DOMAIN @ THEN @[key]
           ELSE transformPoint(c, domains, Point(key[1], key[2]))],
     !["blendingCache"] =
        [key \in DOMAIN @ \cup
                 {pointKey(p) : p \in {q \in points :
                                         ~cacheHas(c, "transformationCache", pointKey(q))}} |->
           IF key \in DOMAIN @ THEN @[key]
           ELSE computeBlendingWeights(domains, Point(key[1], key[2]))]]

\* the loop values start, start + step, ... below end
RECURSIVE loopValues(_, _, _)
loopValues(start, end, step) ==
  IF start < end THEN <<start>> \o loopValues(start + step, end, step) ELSE << >>
\* the corners of the cell at (x, y)
cellCorners(x, y, baseGridSize) ==
  << Point(x, y), Point(x + baseGridSize, y),
     Point(x + baseGridSize, y + baseGridSize), Point(x, y + baseGridSize) >>
\* the (x, y) of the two nested loops, x outermost
loopOrigins(xs, ys) ==
  [k \in 1..(Len(xs) * Len(ys)) |->
     Point(xs[((k - 1) \div Len(ys)) + 1], ys[((k - 1) % Len(ys)) + 1])]
cellOrigins(width, height, baseGridSize) ==
  loopOrigins(loopValues(0 - baseGridSize, width + baseGridSize, baseGridSize),
              loopValues(0 - baseGridSize, height + baseGridSize, baseGridSize))
\* the corners of every cell, cell after cell
gridCorners(origins, baseGridSize) ==
  [k \in 1..Len(origins) |-> cellCorners(origins[k].x, origins[k].y, baseGridSize)]
\* gridCells: each cell's corners and corners.map(p => transformPoint(p))
gridCellsOf(c, domains, corners) ==
  [k \in 1..Len(corners) |->
     [original |-> corners[k],
      transformed |-> [j \in 1..4 |-> transformPoint(c, domains, corners[k][j])]]]
\* the key of generateGridCells
gridCellKey(domains, viewport, baseGridSize) ==
  <<viewport.width, viewport.height, baseGridSize, Len(domains)>>
\* generateGridCells() on a cache miss: the cells
computeGridCells(c, domains, viewport, baseGridSize) ==
  gridCellsOf(c, domains,
              gridCorners(cellOrigins(viewport.width, viewport.height, baseGridSize),
                          baseGridSize))
\* generateGridCells(): the value returned
generateGridCells(c, domains, viewport, baseGridSize) ==
  IF cacheHas(c, "gridCellCache", gridCellKey(domains, viewport, baseGridSize))
  THEN cacheGet(c, "gridCellCache", gridCellKey(domains, viewport, baseGridSize))
  ELSE computeGridCells(c, domains, viewport, baseGridSize)
\* the points generateGridCells transforms on a cache miss
gridPoints(corners) == {corners[k][j] : k \in 1..Len(corners), j \in 1..4}
\* generateGridCells(): the cache after the call
cacheAfterGridCells(c, domains, viewport, baseGridSize) ==
  IF cacheHas(c, "gridCellCache", gridCellKey(domains, viewport, baseGridSize))
  THEN c
  ELSE cacheSet(transformPoints(c, domains,
                  gridPoints(gridCorners(cellOrigins(viewport.width, viewport.height,
                                                     baseGridSize), baseGridSize))),
                "gridCellCache", gridCellKey(domains, viewport, baseGridSize),
                computeGridCells(c, domains, viewport, baseGridSize))

\* createSnappingModule: SNAP_MODES and defaultSettings
SNAP_MODES == {"grid", "intersection", "none"}
defaultSettings ==
  [enabled |-> TRUE, mode |-> "grid", tolerance |-> 10 * SCALE, visualFeedback |-> TRUE,
   snapStrength |-> ONE]

\* Math.round(a / b) for b > 0: the nearest integer, a half rounded up
roundQuotient(a, b) == (2 * a + b) \div (2 * b)
\* a faulty snap: the quotient rounded down
floorCoordinate(coordinate, gridSize) ==
  IF IsNaN(coordinate) \/ IsNaN(gridSize) \/ gridSize <= 0 THEN NaN
  ELSE (coordinate \div gridSize) * gridSize
\* Math.round(coordinate / gridSize) * gridSize
snapCoordinate(coordinate, gridSize) ==
  IF IsNaN(coordinate) \/ IsNaN(gridSize) \/ gridSize = 0 THEN NaN
  ELSE IF gridSize > 0 THEN roundQuotient(coordinate, gridSize) * gridSize
  ELSE roundQuotient(0 - coordinate, 0 - gridSize) * gridSize

\* a faulty test: the mode left out
snapDisabled(st) == ~st.enabled
\* !settings.enabled || settings.mode === SNAP_MODES.NONE
snapOff(st) == ~st.enabled \/ st.mode = "none"
\* snapToGridPoint(point, gridSize) under the settings st
snapToGridPoint(st, point, gridSize) ==
  IF snapOff(st) THEN point
  ELSE [x |-> snapCoordinate(point.x, gridSize), y |-> snapCoordinate(point.y, gridSize)]

\* The functions handed to the snapping module.  A function is a record
\* naming what it computes: the grid module's own transformPoint,
\* inverseTransformPoint and calculateEffectiveGridSize (closures over the
\* grid module's state), a translation of the plane, a constant.
gridTransformFn == [kind |-> "transformPoint"]
gridInverseFn == [kind |-> "inverseTransformPoint"]
gridSizeFn == [kind |-> "calculateEffectiveGridSize"]
translation(dx, dy) == [kind |-> "translation", dx |-> dx, dy |-> dy]
constantFn(value) == [kind |-> "constant", value |-> value]
\* fn(point)
call(fn, point) ==
  CASE fn.kind = "translation" -> [x |-> Add(point.x, fn.dx), y |-> Add(point.y, fn.dy)]
    [] fn.kind = "constant" -> fn.value
    [] fn.kind = "transformPoint" -> transformPoint(cache, transformationDomains, point)
    [] fn.kind = "inverseTransformPoint" ->
         inverseTransformPointWithDomains(point, transformationDomains,
                                          mergedParams.transformations.blendMode).value
    [] fn.kind = "calculateEffectiveGridSize" ->
         calculateEffectiveGridSize(point, transformationDomains,
                                    mergedParams.grid.size).value

\* snapTransformedPoint from the original-space point on
snapOriginal(st, originalPoint, transformFn, effectiveGridSizeFn) ==
  call(transformFn, snapToGridPoint(st, originalPoint, call(effectiveGridSizeFn, originalPoint)))
\* snapTransformedPoint(point, transformFn, inverseFn, effectiveGridSizeFn)
snapTransformedPoint(st, point, transformFn, inverseFn, effectiveGridSizeFn) ==
  IF snapOff(st) THEN point
  ELSE snapOriginal(st, call(inverseFn, point), transformFn, effectiveGridSizeFn)
\* the functions snapTransformedPoint invokes, in order
snapInvokes(st) ==
  IF snapOff(st) THEN << >> ELSE <<"inverseFn", "effectiveGridSizeFn", "transformFn">>

\* snapWithAttraction(point, gridPoint, strength = settings.snapStrength)
snapWithAttraction(point, gridPoint, strength) ==
  IF Le(ONE, strength) THEN gridPoint
  ELSE [x |-> Add(point.x, Mul(Sub(gridPoint.x, point.x), strength)),
        y |-> Add(point.y, Mul(Sub(gridPoint.y, point.y), strength))]
\* Math.sqrt(Math.pow(gridPoint.x - point.x, 2) + Math.pow(gridPoint.y - point.y, 2))
gridDistance(point, gridPoint) ==
  Hypot(Sub(gridPoint.x, point.x), Sub(gridPoint.y, point.y))
\* a faulty search: a grid point as near as the nearest so far replaces it
RECURSIVE nearestIndexLast(_, _, _, _)
nearestIndexLast(point, gridPts, tol, i) ==
  IF i = 0 THEN 0
  ELSE IF /\ Le(gridDistance(point, gridPts[i]), tol)
          /\ \/ nearestIndexLast(point, gridPts, tol, i - 1) = 0
             \/ Le(gridDistance(point, gridPts[i]),
                   gridDistance(point, gridPts[nearestIndexLast(point, gridPts, tol, i - 1)]))
       THEN i
       ELSE nearestIndexLast(point, gridPts, tol, i - 1)
\* findNearestGridPoint after the first i grid points: the index of
\* nearestPoint, 0 for null
RECURSIVE nearestIndex(_, _, _, _)
nearestIndex(point, gridPts, tol, i) ==
  IF i = 0 THEN 0
  ELSE IF /\ Le(gridDistance(point, gridPts[i]), tol)
          /\ \/ nearestIndex(point, gridPts, tol, i - 1) = 0
             \/ Lt(gridDistance(point, gridPts[i]),
                   gridDistance(point, gridPts[nearestIndex(point, gridPts, tol, i - 1)]))
       THEN i
       ELSE nearestIndex(point, gridPts, tol, i - 1)
\* findNearestGridPoint(point, gridPoints, tolerance = settings.tolerance)
findNearestGridPoint(point, gridPts, tol) == nearestIndex(point, gridPts, tol, Len(gridPts))
\* snapToGridIntersection(point, gridPoints) under the settings st
snapToGridIntersection(st, point, gridPts) ==
  IF snapOff(st) THEN point
  ELSE IF findNearestGridPoint(point, gridPts, st.tolerance) = 0 THEN point
  ELSE snapWithAttraction(point, gridPts[findNearestGridPoint(point, gridPts, st.tolerance)],
                          st.snapStrength)

\* updateSettings(newSettings): { ...settings, ...newSettings }
updateSettings(st, newSettings) == newSettings @@ st
\* setMode(mode): the value returned
setMode(mode) == mode \in SNAP_MODES

\* createCellShapeModule({gridModule, parameters}): parameters as a record
\* holding the properties given
NoParameters == << >>
\* parameters?.snapIntensity || 1.0
initialSnapIntensity(parameters) == NumProp(parameters, "snapIntensity", ONE)

\* the grid module and the snapping module as constructed
InitGrid ==
  /\ transformationDomains = << >>
  /\ viewportDimensions \in ViewportInputs
  /\ zoomLevel = ONE
  /\ panOffset = Point(0, 0)
  /\ \E n \in Capacities :
       mergedParams = [grid |-> [size |-> GridUnit, snapToGrid |-> TRUE],
                       transformations |-> [blendMode |-> "smooth", maxActiveDomains |-> n]]
  /\ cache = [transformationCache |-> EmptyMap, blendingCache |-> EmptyMap,
              gridCellCache |-> EmptyMap]
  /\ now = 0
  /\ createdCount = 0
  /\ onlyCreates = TRUE
  /\ probe = [op |-> "none"]
  /\ settings = defaultSettings

Init ==
  /\ InitGrid
  /\ snapIntensity = initialSnapIntensity(NoParameters)

\* a faulty eviction: the last element removed, if there is one
dropLast(domains) ==
  IF domains = << >> THEN domains ELSE SubSeq(domains, 1, Len(domains) - 1)

\* Array.prototype.shift: the first element removed, if there is one
shift(domains) == IF domains = << >> THEN domains ELSE Tail(domains)

\* createTransformationDomain(center, radius, type, options)
CreateTransformationDomain(center, radius, type, options) ==
  LET kept == IF Len(transformationDomains) >= mergedParams.transformations.maxActiveDomains
              THEN shift(transformationDomains)
              ELSE transformationDomains
      made == createDomain(type, [center |-> center, radius |-> radius, options |-> options])
  IN  IF made.threw
      THEN /\ transformationDomains' = kept
           /\ onlyCreates' = FALSE
           /\ UNCHANGED <<viewportDimensions, zoomLevel, panOffset, mergedParams, cache,
                          now, createdCount, probe, settings, snapIntensity>>
      ELSE LET domain == [id |-> now, created |-> now, seq |-> createdCount + 1] @@ made.value
           IN  /\ createdCount < MaxCreated
               /\ transformationDomains' = Append(kept, domain)
               /\ createdCount' = createdCount + 1
               /\ cache' = cacheClear(cacheClear(cache, "transformationCache"), "blendingCache")
               /\ UNCHANGED <<viewportDimensions, zoomLevel, panOffset, mergedParams, now,
                              onlyCreates, probe, settings, snapIntensity>>

\* a faulty removal: only the first domain whose id is domainId is dropped
RECURSIVE filterFirst(_, _)
filterFirst(domains, domainId) ==
  IF domains = << >> THEN << >>
  ELSE IF Head(domains).id # domainId
       THEN <<Head(domains)>> \o filterFirst(Tail(domains), domainId)
       ELSE Tail(domains)

\* the domains whose id is not domainId
RECURSIVE filterId(_, _)
filterId(domains, domainId) ==
  IF domains = << >> THEN << >>
  ELSE IF Head(domains).id # domainId
       THEN <<Head(domains)>> \o filterId(Tail(domains), domainId)
       ELSE filterId(Tail(domains), domainId)

\* the value removeTransformationDomain(domainId) returns when called with
\* the registry holding domains
removeTransformationDomain(domains, domainId) ==
  Len(domains) # Len(filterId(domains, domainId))

\* removeTransformationDomain(domainId)
RemoveTransformationDomain(domainId) ==
  LET initialLength == Len(transformationDomains)
      kept == filterId(transformationDomains, domainId)
  IN  /\ transformationDomains' = kept
      /\ IF initialLength # Len(kept)
         THEN /\ cache' = cacheClear(cacheClear(cache, "transformationCache"), "blendingCache")
         ELSE /\ cache' = cache
      /\ onlyCreates' = FALSE
      /\ UNCHANGED <<viewportDimensions, zoomLevel, panOffset, mergedParams, now,
                     createdCount, probe, settings, snapIntensity>>

\* clearTransformationDomains()
ClearTransformationDomains ==
  /\ transformationDomains' = << >>
  /\ cache' = cacheClear(cacheClear(cache, "transformationCache"), "blendingCache")
  /\ onlyCreates' = FALSE
  /\ UNCHANGED <<viewportDimensions, zoomLevel, panOffset, mergedParams, now,
                 createdCount, probe, settings, snapIntensity>>

\* transformPoint(point)
TransformPoint(point) ==
      /\ cache' = transformPoints(cache, transformationDomains, {point})
      /\ UNCHANGED <<transformationDomains, viewportDimensions, zoomLevel, panOffset,
                     mergedParams, now, createdCount, onlyCreates, probe, settings, snapIntensity>>

\* generateGridCells()
GenerateGridCells ==
      /\ cache' = cacheAfterGridCells(cache, transformationDomains, viewportDimensions,
                                      mergedParams.grid.size)
      /\ UNCHANGED <<transformationDomains, viewportDimensions, zoomLevel, panOffset,
                     mergedParams, now, createdCount, onlyCreates, probe, settings, snapIntensity>>

\* setZoomLevel(newZoomLevel)
SetZoomLevel(newZoomLevel) ==
  LET constrainedZoom == Max(SCALE \div 10, Min(10 * SCALE, newZoomLevel))
  IN  /\ IF zoomLevel # constrainedZoom
         THEN /\ zoomLevel' = constrainedZoom
              /\ cache' = cacheClear(cache, "gridCellCache")
         ELSE UNCHANGED <<zoomLevel, cache>>
      /\ UNCHANGED <<transformationDomains, viewportDimensions, panOffset, mergedParams,
                     now, createdCount, onlyCreates, probe, settings, snapIntensity>>

\* a faulty setPanOffset, clearing every cache
SetPanOffsetClearingAll(x, y) ==
  /\ panOffset' = Point(x, y)
  /\ cache' = [name \in DOMAIN cache |-> << >>]
  /\ UNCHANGED <<transformationDomains, viewportDimensions, zoomLevel, mergedParams,
                 now, createdCount, onlyCreates, probe, settings, snapIntensity>>

\* setPanOffset(x, y)
SetPanOffset(x, y) ==
  /\ panOffset' = Point(x, y)
  /\ cache' = cacheClear(cache, "gridCellCache")
  /\ UNCHANGED <<transformationDomains, viewportDimensions, zoomLevel, mergedParams,
                 now, createdCount, onlyCreates, probe, settings, snapIntensity>>

\* updateViewportDimensions(width, height)
UpdateViewportDimensions(width, height) ==
  /\ viewportDimensions' = [width |-> width, height |-> height]
  /\ cache' = cacheClear(cache, "gridCellCache")
  /\ UNCHANGED <<transformationDomains, zoomLevel, panOffset, mergedParams,
                 now, createdCount, onlyCreates, probe, settings, snapIntensity>>

\* the parameter objects given to updateParameters
ParamInputs ==
  {[transformations |-> [maxActiveDomains |-> n]] : n \in Capacities}
  \cup {[grid |-> [size |-> g]] : g \in GridSizes}

\* updateParameters(newParams)
UpdateParameters(newParams) ==
  LET withGrid == IF "grid" \in DOMAIN newParams
                  THEN [mergedParams EXCEPT !.grid = newParams.grid @@ @]
                  ELSE mergedParams
      withBoth == IF "transformations" \in DOMAIN newParams
                  THEN [withGrid EXCEPT !.transformations = newParams.transformations @@ @]
                  ELSE withGrid
  IN  /\ mergedParams' = withBoth
      /\ cache' = cacheClear(cache, "gridCellCache")
      /\ onlyCreates' = FALSE
      /\ UNCHANGED <<transformationDomains, viewportDimensions, zoomLevel, panOffset,
                     now, createdCount, probe, settings, snapIntensity>>

\* time passes between two calls
Tick ==
  /\ now < MaxClock
  /\ now' = now + 1
  /\ UNCHANGED <<transformationDomains, viewportDimensions, zoomLevel, panOffset,
                 mergedParams, cache, createdCount, onlyCreates, probe, settings, snapIntensity>>

Create == \E center \in Centers, radius \in Radii, type \in CreateTypes, options \in OptionValues :
            CreateTransformationDomain(center, radius, type, options)
Remove == \E domainId \in 0..MaxClock : RemoveTransformationDomain(domainId)
Transform == \E point \in QueryPoints : TransformPoint(point)
Zoom == \E z \in ZoomInputs : SetZoomLevel(z)
Pan == \E p \in PanInputs : SetPanOffset(p.x, p.y)
Resize == \E v \in ViewportInputs : UpdateViewportDimensions(v.width, v.height)
Update == \E newParams \in ParamInputs : UpdateParameters(newParams)

Next ==
  \/ Create
  \/ Remove
  \/ ClearTransformationDomains
  \/ Transform
  \/ GenerateGridCells
  \/ Zoom
  \/ Pan
  \/ Resize
  \/ Update
  \/ Tick

Spec == Init /\ [][Next]_vars

\* ------------------------------------------------------------------------
\* The registry's operations alone
\* ------------------------------------------------------------------------
NextRegistry ==
  \/ Create
  \/ Remove
  \/ ClearTransformationDomains
  \/ Update
  \/ Tick

SpecRegistry == Init /\ [][NextRegistry]_vars

\* ------------------------------------------------------------------------
\* adaptiveGrid.js: the calls that return a value, one call on a module
\* with any registry and parameters
\* ------------------------------------------------------------------------
EnginePoints == {P(0, 0), P(3, 0), P(8, 0), P(7, 7)}
\* the number of domains created before the call
EngineCreated == 1
\* the types of those domains.  The iterative inverse of a cylindrical
\* domain multiplies the guess by 1.5 at each of its 50 iterations and leaves
\* the integers of the model, so that the calls are made without it.
EngineTypes == RecognizedTypes \ {"cylindrical"}
EngineParamInputs ==
  {[transformations |-> [blendMode |-> m]] : m \in BlendModes}
  \cup {[grid |-> [snapToGrid |-> b]] : b \in BOOLEAN}

\* inverseTransformPoint(transformedPoint): the value returned or thrown
inverseTransformPoint(transformedPoint) ==
  inverseTransformPointWithDomains(transformedPoint, transformationDomains,
                                   mergedParams.transformations.blendMode)
\* calculateEffectiveGridSize(point) of the grid module
effectiveGridSize(point) ==
  calculateEffectiveGridSize(point, transformationDomains, mergedParams.grid.size)
\* the point snapToGrid hands to transformPoint
snappedOriginal(originalPoint) ==
  snapToGridPoint(defaultSettings, originalPoint, call(gridSizeFn, originalPoint))
\* snapToGrid(point): the value returned; the grid module's own snapping
\* module keeps its default settings
snapToGrid(point) ==
  IF ~mergedParams.grid.snapToGrid THEN point
  ELSE snapTransformedPoint(defaultSettings, point, gridTransformFn, gridInverseFn, gridSizeFn)

\* transformPoint(point), the value kept
TransformPointCall(point) ==
  /\ probe' = [op |-> "transformPoint", point |-> point,
               result |-> transformPoint(cache, transformationDomains, point)]
  /\ cache' = transformPoints(cache, transformationDomains, {point})
  /\ UNCHANGED <<transformationDomains, viewportDimensions, zoomLevel, panOffset,
                 mergedParams, now, createdCount, onlyCreates, settings, snapIntensity>>

\* inverseTransformPoint(transformedPoint)
InverseTransformPointCall(transformedPoint) ==
  /\ probe' = [op |-> "inverseTransformPoint", point |-> transformedPoint,
               result |-> inverseTransformPoint(transformedPoint)]
  /\ UNCHANGED gridVars
  /\ UNCHANGED sideVars

\* inverseTransformPoint(transformPoint(point)), both values kept
RoundTripCall(point) ==
  /\ probe' = [op |-> "roundTrip", point |-> point,
               transformed |-> transformPoint(cache, transformationDomains, point),
               result |-> inverseTransformPoint(
                            transformPoint(cache, transformationDomains, point))]
  /\ cache' = transformPoints(cache, transformationDomains, {point})
  /\ UNCHANGED <<transformationDomains, viewportDimensions, zoomLevel, panOffset,
                 mergedParams, now, createdCount, onlyCreates, settings, snapIntensity>>

\* calculateEffectiveGridSize(point)
EffectiveGridSizeCall(point) ==
  /\ probe' = [op |-> "calculateEffectiveGridSize", point |-> point,
               baseSize |-> mergedParams.grid.size, result |-> effectiveGridSize(point)]
  /\ UNCHANGED gridVars
  /\ UNCHANGED sideVars

\* snapToGrid(point)
SnapToGridCall(point) ==
  /\ probe' = [op |-> "snapToGrid", point |-> point, result |-> snapToGrid(point),
               invoked |-> IF mergedParams.grid.snapToGrid THEN snapInvokes(defaultSettings)
                           ELSE << >>]
  /\ cache' = IF mergedParams.grid.snapToGrid
              THEN transformPoints(cache, transformationDomains,
                                   {snappedOriginal(call(gridInverseFn, point))})
              ELSE cache
  /\ UNCHANGED <<transformationDomains, viewportDimensions, zoomLevel, panOffset,
                 mergedParams, now, createdCount, onlyCreates, settings, snapIntensity>>

CreateAny == \E center \in Centers, radius \in Radii, type \in EngineTypes,
                options \in OptionValues :
               /\ probe.op = "none"
               /\ createdCount < EngineCreated
               /\ CreateTransformationDomain(center, radius, type, options)
Configure == \E newParams \in EngineParamInputs :
               probe.op = "none" /\ UpdateParameters(newParams)
CallTransformPoint == \E point \in EnginePoints :
                        probe.op = "none" /\ TransformPointCall(point)
CallInverseTransformPoint ==
  \E transformedPoint \in EnginePoints :
    probe.op = "none" /\ InverseTransformPointCall(transformedPoint)
CallRoundTrip == \E point \in EnginePoints : probe.op = "none" /\ RoundTripCall(point)
CallEffectiveGridSize == \E point \in EnginePoints :
                           probe.op = "none" /\ EffectiveGridSizeCall(point)
CallSnapToGrid == \E point \in EnginePoints : probe.op = "none" /\ SnapToGridCall(point)

NextEngine ==
  \/ CreateAny
  \/ Configure
  \/ CallTransformPoint
  \/ CallInverseTransformPoint
  \/ CallRoundTrip
  \/ CallEffectiveGridSize
  \/ CallSnapToGrid

SpecEngine == Init /\ [][NextEngine]_vars

\* ------------------------------------------------------------------------
\* adaptiveGrid.js: the objects the calls return.  The cache module keeps
\* the object handed to cache.set and cache.get hands the same object back,
\* so that the object transformPoint returns is the entry of
\* transformationCache under the point's key; the caller may write to it.
\* ------------------------------------------------------------------------
\* the key of the cache entry that the last call returned
returnedKey ==
  IF probe.op = "snapToGrid"
  THEN pointKey(snappedOriginal(call(gridInverseFn, probe.point)))
  ELSE pointKey(probe.point)
\* the last call returned an object that transformationCache holds
returnedIsCached ==
  /\ \/ probe.op = "transformPoint"
     \/ probe.op = "snapToGrid" /\ mergedParams.grid.snapToGrid
  /\ cacheHas(cache, "transformationCache", returnedKey)
\* the value a caller writes into a point it was given
Scribble == P(99, 99)

\* result.x = x; result.y = y, on the object the last call returned
MutateReturned(x, y) ==
  /\ returnedIsCached
  /\ cache' = cacheSet(cache, "transformationCache", returnedKey, Point(x, y))
  /\ probe' = [probe EXCEPT !.result = Point(x, y)]
  /\ UNCHANGED <<transformationDomains, viewportDimensions, zoomLevel, panOffset,
                 mergedParams, now, createdCount, onlyCreates, settings, snapIntensity>>

CreateSpherical == \E center \in Centers, radius \in Radii :
                     /\ createdCount < EngineCreated
                     /\ CreateTransformationDomain(center, radius, "spherical", NoOptions)
AliasPoints == {P(0, 0), P(3, 0)}
AnyTransformPoint == \E point \in AliasPoints : TransformPointCall(point)
AnySnapToGrid == \E point \in AliasPoints : SnapToGridCall(point)
Scribbling == MutateReturned(Scribble.x, Scribble.y)

NextAlias ==
  \/ CreateSpherical
  \/ AnyTransformPoint
  \/ AnySnapToGrid
  \/ Scribbling

SpecAlias == Init /\ [][NextAlias]_vars

\* ------------------------------------------------------------------------
\* adaptiveGrid.js: snapToGrid called on the point snapToGrid returned, on a
\* module whose registry has been filled and emptied and whose grid size has
\* been set
\* ------------------------------------------------------------------------
ResnapPoints == {P(4, 0), P(3, 0), P(7, 7)}
ResnapSizes == {SCALE, 2 * SCALE}
ResnapTypes == {"spherical", "flat"}

\* snapToGrid(first), first the point the last snapToGrid returned
SnapToGridAgainCall ==
  /\ probe.op = "snapToGrid"
  /\ probe' = [op |-> "snapToGridAgain", point |-> probe.point, first |-> probe.result,
               result |-> snapToGrid(probe.result)]
  /\ cache' = IF mergedParams.grid.snapToGrid
              THEN transformPoints(cache, transformationDomains,
                                   {snappedOriginal(call(gridInverseFn, probe.result))})
              ELSE cache
  /\ UNCHANGED <<transformationDomains, viewportDimensions, zoomLevel, panOffset,
                 mergedParams, now, createdCount, onlyCreates, settings, snapIntensity>>

CreateBeforeSnap ==
  \E center \in Centers, radius \in Radii, type \in ResnapTypes :
    /\ probe.op = "none"
    /\ type \in RecognizedTypes => createdCount < EngineCreated
    /\ CreateTransformationDomain(center, radius, type, NoOptions)
ClearBeforeSnap == probe.op = "none" /\ ClearTransformationDomains
SetGridSize == \E size \in ResnapSizes :
                 probe.op = "none" /\ UpdateParameters([grid |-> [size |-> size]])
TransformBeforeSnap == \E point \in ResnapPoints : probe.op = "none" /\ TransformPoint(point)
\* the calls are made once the registry is empty
SnapOnce == \E point \in ResnapPoints :
              /\ probe.op = "none"
              /\ transformationDomains = << >>
              /\ SnapToGridCall(point)

NextResnap ==
  \/ CreateBeforeSnap
  \/ ClearBeforeSnap
  \/ SetGridSize
  \/ TransformBeforeSnap
  \/ SnapOnce
  \/ SnapToGridAgainCall

SpecResnap == Init /\ [][NextResnap]_vars

\* ------------------------------------------------------------------------
\* localShapeDeformation.js: inverseTransformPointWithDomains called with
\* any domains
\* ------------------------------------------------------------------------
MaxInverseDomains == 2
InversePoints == {P(1, 0), P(2, 0), P(2, 1)}
InverseConfigs ==
  {[type |-> "spherical", center |-> c, radius |-> r, blendMode |-> "smooth",
    options |-> NoOptions] : c \in {P(0, 0), P(3, 0)}, r \in {6 * SCALE, 8 * SCALE}}
InverseDomains == UNION {[1..n -> InverseConfigs] : n \in 0..MaxInverseDomains}

\* inverseTransformPointWithDomains(point, domains, blendMode), the value kept
InverseWithDomainsCall(point, configs, blendMode) ==
  /\ probe' = [op |-> "inverseTransformPointWithDomains", point |-> point,
               configs |-> configs,
               result |-> inverseTransformPointWithDomains(point, configs, blendMode)]
  /\ UNCHANGED gridVars
  /\ UNCHANGED sideVars

NextInverse ==
  /\ probe.op = "none"
  /\ \E point \in InversePoints, configs \in InverseDomains :
       InverseWithDomainsCall(point, configs, "smooth")

SpecInverse == Init /\ [][NextInverse]_vars

\* ------------------------------------------------------------------------
\* localShapeDeformation.js: Domain._iterativeInverse, step by step.  The
\* call in progress is kept in probe: the domain, the target object, the
\* guess, the loop counter i and the number of forward transforms evaluated.
\* ------------------------------------------------------------------------
IterateTargets == {P(3, 0), P(8, 0), P(0, 0), P(7, 7)}
IterateDomains ==
  {createDomain(type, [center |-> c, radius |-> r, options |-> NoOptions]).value :
     type \in EngineTypes, c \in Centers, r \in Radii}

\* a faulty loop test: one iteration more
loopEndsLate(i) == i > maxIterations
\* the for loop's test fails: i < maxIterations is false
loopEnds(i) == i >= maxIterations
\* target - forward of the guess, and Math.hypot(dx, dy) < tolerance
residual(domain, target, guess) ==
  [dx |-> Sub(target.x, transform(domain, guess, 1).x),
   dy |-> Sub(target.y, transform(domain, guess, 1).y)]
belowTolerance(r) == Lt(Hypot(r.dx, r.dy), tolerance)

\* domain.inverse(target) is called: let guess = { ...target }
StartIterativeInverse(domain, target) ==
  /\ probe.op = "none"
  /\ probe' = [op |-> "iterativeInverse", domain |-> domain, given |-> target,
               target |-> target, guess |-> [x |-> target.x, y |-> target.y],
               i |-> 0, evaluations |-> 0, status |-> "running"]
  /\ UNCHANGED gridVars
  /\ UNCHANGED sideVars

\* the loop test and, when it holds, one pass through the loop body
IterateStep ==
  /\ probe.op = "iterativeInverse"
  /\ probe.status = "running"
  /\ \E r \in {residual(probe.domain, probe.target, probe.guess)} :
       probe' =
         IF loopEnds(probe.i) THEN [probe EXCEPT !.status = "returned"]
         ELSE IF belowTolerance(r)
         THEN [probe EXCEPT !.evaluations = @ + 1, !.status = "returned"]
         ELSE [probe EXCEPT !.evaluations = @ + 1, !.i = @ + 1,
                            !.guess = nudged(@, r.dx, r.dy)]
  /\ UNCHANGED gridVars
  /\ UNCHANGED sideVars

NextIterate ==
  \/ \E domain \in IterateDomains, target \in IterateTargets :
       StartIterativeInverse(domain, target)
  \/ IterateStep

\* the loop is not interrupted: a call in progress takes its next step
SpecIterate == Init /\ [][NextIterate]_vars /\ WF_vars(IterateStep)

\* ------------------------------------------------------------------------
\* localShapeDeformation.js: calculateEffectiveGridSize called with any
\* domains and base size
\* ------------------------------------------------------------------------
MaxSizeDomains == 3
SizePoints == {P(0, 0), P(3, 0), P(8, 0)}
SizeBases == {20 * SCALE, SCALE, SCALE \div 2}
\* the eccentricity is read of conic domains only
SizeConfigs ==
  {[type |-> t, center |-> P(0, 0), radius |-> 6 * SCALE, blendMode |-> m,
    options |-> NoOptions] :
     t \in {"spherical", "cylindrical", "conic"}, m \in {"sharp", "smooth"}}
  \cup {[type |-> "conic", center |-> P(0, 0), radius |-> 6 * SCALE, blendMode |-> m,
          options |-> [eccentricity |-> 5 * SCALE]] : m \in {"sharp", "smooth"}}
  \cup {[type |-> "cylindrical", center |-> P(0, 0), radius |-> 10 * SCALE,
          blendMode |-> "smooth", options |-> NoOptions]}
SizeDomains == UNION {[1..n -> SizeConfigs] : n \in 0..MaxSizeDomains}

\* calculateEffectiveGridSize(point, domains, baseSize), the value kept
CalculateEffectiveGridSizeCall(point, configs, baseSize) ==
  /\ probe' = [op |-> "calculateGridSize", point |-> point, configs |-> configs,
               baseSize |-> baseSize,
               result |-> calculateEffectiveGridSize(point, configs, baseSize)]
  /\ UNCHANGED gridVars
  /\ UNCHANGED sideVars

NextGridSize ==
  /\ probe.op = "none"
  /\ \E point \in SizePoints, configs \in SizeDomains, baseSize \in SizeBases :
       CalculateEffectiveGridSizeCall(point, configs, baseSize)

SpecGridSize == Init /\ [][NextGridSize]_vars

\* ------------------------------------------------------------------------
\* createSnappingModule: a snapping module of its own, its settings changed
\* and then one snapping call made
\* ------------------------------------------------------------------------
SnapPoints == {P(7, 7), P(0, 0), P(5, 0 - 5), P(0 - 7, 12)}
SnapSizes == {10 * SCALE, 4 * SCALE}
SnapShifts == {translation(0, 0), translation(3 * SCALE, 0 - SCALE)}
\* the inverse of a translation
opposite(fn) == translation(0 - fn.dx, 0 - fn.dy)
SnapGridPoints == {<< >>, <<P(10, 10)>>, <<P(0, 10), P(10, 10), P(10, 0)>>}
\* the values handed to updateSettings: any object is merged
SettingsInputs ==
  {[enabled |-> b] : b \in BOOLEAN}
  \cup {[mode |-> m] : m \in SNAP_MODES \cup {"magnetic"}}
  \cup {[snapStrength |-> v] : v \in {HALF, 2 * SCALE}}
  \cup {[tolerance |-> 2 * SCALE]}
ModeInputs == SNAP_MODES \cup {"magnetic", "GRID"}

UpdateSettings(newSettings) ==
  /\ settings' = updateSettings(settings, newSettings)
  /\ UNCHANGED <<gridVars, probe, snapIntensity>>
Enable ==
  /\ settings' = [settings EXCEPT !.enabled = TRUE]
  /\ UNCHANGED <<gridVars, probe, snapIntensity>>
Disable ==
  /\ settings' = [settings EXCEPT !.enabled = FALSE]
  /\ UNCHANGED <<gridVars, probe, snapIntensity>>
SetMode(mode) ==
  /\ settings' = IF setMode(mode) THEN [settings EXCEPT !.mode = mode] ELSE settings
  /\ UNCHANGED <<gridVars, probe, snapIntensity>>

\* snapToGridPoint(point, gridSize), the value kept
SnapToGridPointCall(point, gridSize) ==
  /\ probe' = [op |-> "snapToGridPoint", point |-> point, gridSize |-> gridSize,
               result |-> snapToGridPoint(settings, point, gridSize), invoked |-> << >>]
  /\ UNCHANGED gridVars
  /\ UNCHANGED sideVars
\* snapTransformedPoint(point, transformFn, inverseFn, effectiveGridSizeFn)
SnapTransformedPointCall(point, transformFn, inverseFn, effectiveGridSizeFn) ==
  /\ probe' = [op |-> "snapTransformedPoint", point |-> point,
               transformFn |-> transformFn, inverseFn |-> inverseFn,
               effectiveGridSizeFn |-> effectiveGridSizeFn,
               result |-> snapTransformedPoint(settings, point, transformFn, inverseFn,
                                               effectiveGridSizeFn),
               invoked |-> snapInvokes(settings)]
  /\ UNCHANGED gridVars
  /\ UNCHANGED sideVars
\* snapToGridIntersection(point, gridPoints)
SnapToGridIntersectionCall(point, gridPts) ==
  /\ probe' = [op |-> "snapToGridIntersection", point |-> point, gridPoints |-> gridPts,
               result |-> snapToGridIntersection(settings, point, gridPts),
               invoked |-> << >>]
  /\ UNCHANGED gridVars
  /\ UNCHANGED sideVars

CallUpdateSettings == \E newSettings \in SettingsInputs :
                        probe.op = "none" /\ UpdateSettings(newSettings)
CallEnable == probe.op = "none" /\ Enable
CallDisable == probe.op = "none" /\ Disable
CallSetMode == \E mode \in ModeInputs : probe.op = "none" /\ SetMode(mode)
CallSnapToGridPoint == \E point \in SnapPoints, gridSize \in SnapSizes :
                         probe.op = "none" /\ SnapToGridPointCall(point, gridSize)
CallSnapTransformedPoint ==
  \E point \in SnapPoints, transformFn \in SnapShifts, gridSize \in SnapSizes :
    /\ probe.op = "none"
    /\ SnapTransformedPointCall(point, transformFn, opposite(transformFn),
                                constantFn(gridSize))
CallSnapToGridIntersection == \E point \in SnapPoints, gridPts \in SnapGridPoints :
                                /\ probe.op = "none"
                                /\ SnapToGridIntersectionCall(point, gridPts)

ConfigureSnapToGrid == \E b \in BOOLEAN :
                         probe.op = "none" /\ UpdateParameters([grid |-> [snapToGrid |-> b]])

NextSnap ==
  \/ ConfigureSnapToGrid
  \/ CallSnapToGrid
  \/ CallUpdateSettings
  \/ CallEnable
  \/ CallDisable
  \/ CallSetMode
  \/ CallSnapToGridPoint
  \/ CallSnapTransformedPoint
  \/ CallSnapToGridIntersection

SpecSnap == Init /\ [][NextSnap]_vars

\* ------------------------------------------------------------------------
\* adaptiveGrid.js: the viewport controls, called with any number
\* ------------------------------------------------------------------------
\* the numbers handed to setZoomLevel: NaN is a number
ZoomValues ==
  {0 - SCALE, 0, SCALE \div 20, SCALE \div 10, HALF, ONE, 5 * SCALE, 10 * SCALE,
   10 * SCALE + 1, 20 * SCALE, NaN}
ZoomAny == \E z \in ZoomValues : SetZoomLevel(z)

NextView ==
  \/ ZoomAny
  \/ Pan
  \/ Resize
  \/ GenerateGridCells

SpecView == Init /\ [][NextView]_vars

\* ------------------------------------------------------------------------
\* cellShape.js: createCellShapeModule, its snap intensity
\* ------------------------------------------------------------------------
\* the intensities handed over: -0.5 to 2.5 by tenths, and NaN
Intensities == {(k * SCALE) \div 10 : k \in (0 - 5)..25} \cup {NaN}
CellParameters == {NoParameters} \cup {[snapIntensity |-> v] : v \in Intensities}
CellParamInputs ==
  {[propagationType |-> "radial"]} \cup {[snapIntensity |-> v] : v \in Intensities}

\* Math.max(0, Math.min(1, intensity))
clampIntensity(intensity) == Max(0, Min(ONE, intensity))

\* setSnapIntensity(intensity)
SetSnapIntensity(intensity) ==
  /\ snapIntensity' = clampIntensity(intensity)
  /\ UNCHANGED <<gridVars, probe, settings>>
\* updateParameters(newParams) of the cell shape module
CellUpdateParameters(newParams) ==
  /\ snapIntensity' = IF "snapIntensity" \in DOMAIN newParams
                      THEN newParams.snapIntensity
                      ELSE snapIntensity
  /\ UNCHANGED <<gridVars, probe, settings>>

InitCellShape ==
  /\ InitGrid
  /\ \E parameters \in CellParameters : snapIntensity = initialSnapIntensity(parameters)

NextCellShape ==
  \/ \E intensity \in Intensities : SetSnapIntensity(intensity)
  \/ \E newParams \in CellParamInputs : CellUpdateParameters(newParams)

SpecCellShape == InitCellShape /\ [][NextCellShape]_vars

\* ------------------------------------------------------------------------
\* The registry: capacity and eviction
\* ------------------------------------------------------------------------
maxActiveDomains == mergedParams.transformations.maxActiveDomains

\* C1: in every reachable state the number of active transformation domains
\* is at most the maxActiveDomains currently configured.
C1_WithinCapacity == Len(transformationDomains) <= maxActiveDomains

\* the domains stand in the order of their creation
CreationOrdered(domains) ==
  \A i, j \in 1..Len(domains) : i < j => domains[i].seq < domains[j].seq
\* the domains are the n most recently created of the first created ones
MostRecent(domains, n, created) ==
  /\ Len(domains) = n
  /\ \A i \in 1..n : domains[i].seq = created - n + i
\* a createTransformationDomain call made with the registry at capacity
CreateAtCapacity ==
  /\ Create
  /\ transformationDomains # << >>
  /\ Len(transformationDomains) >= maxActiveDomains

keyPoint(key) == Point(key[1], key[2])
\* transformPoint(point) computed from scratch against the domains
fromScratch(domains, point) == blendPoint(computeBlendingWeights(domains, point), point)

\* a registry mutation: a create that returns a domain, a remove of an id
\* that is present, a clear
RegistryMutation ==
  \/ Create /\ createdCount' = createdCount + 1
  \/ \E i \in 1..Len(transformationDomains) :
       RemoveTransformationDomain(transformationDomains[i].id)
  \/ ClearTransformationDomains

\* C3: on return from a registry mutation none of the three caches holds an
\* entry written before the call: all three are empty.
C3_MutationClearsAllCaches ==
  [][RegistryMutation =>
       /\ cache'.transformationCache = EmptyMap
       /\ cache'.blendingCache = EmptyMap
       /\ cache'.gridCellCache = EmptyMap]_vars

\* C4: every entry of transformationCache and of blendingCache equals the
\* value computed from scratch against the current domain sequence.
C4_PointCachesCurrent ==
  /\ \A key \in DOMAIN cache.transformationCache :
       cache.transformationCache[key] = fromScratch(transformationDomains, keyPoint(key))
  /\ \A key \in DOMAIN cache.blendingCache :
       cache.blendingCache[key] = computeBlendingWeights(transformationDomains, keyPoint(key))

\* a viewport or parameter mutation
ViewMutation == Zoom \/ Pan \/ Resize \/ Update

C6_EmptyRegistryIsIdentity ==
  transformationDomains = << >> =>
    \A p \in QueryPoints \cup {keyPoint(key) : key \in DOMAIN cache.transformationCache} :
      transformPoint(cache, transformationDomains, p) = p

\* flatWeight * p + the sum over the domains of weight_i * domain_i.transform(p)
RECURSIVE WeightedSum(_, _, _)
WeightedSum(domains, point, i) ==
  IF i = 0
  THEN LET flatWeight == computeBlendingWeights(domains, point).flatWeight
       IN  [x |-> Mul(flatWeight, point.x), y |-> Mul(flatWeight, point.y)]
  ELSE LET rest == WeightedSum(domains, point, i - 1)
           weight == weightAt(domains[i], point)
           transformed == transform(domains[i], point, 1)
       IN  [x |-> Add(rest.x, Mul(weight, transformed.x)),
            y |-> Add(rest.y, Mul(weight, transformed.y))]

\* C7: when the flat weight is not 1, transformPoint(p) is the flat weight
\* times p plus the sum over the active domains of each domain's weight
\* times its transform of p, the weights as computed.
C7_ForwardIsWeightedSum ==
  \A p \in QueryPoints :
    computeBlendingWeights(transformationDomains, p).flatWeight # ONE =>
      transformPoint(cache, transformationDomains, p)
        = WeightedSum(transformationDomains, p, Len(transformationDomains))

\* ------------------------------------------------------------------------
\* The deformation module's own interface: one call on a fresh module
\* ------------------------------------------------------------------------
ProbeCenters == {P(0, 0), P(3, 0)}
ProbeRadii == {0, 5 * SCALE, 10 * SCALE}
ProbePoints == {P(0, 0), P(3, 0), P(2, 0), P(3, 4), P(5, 0), P(8, 0), P(13, 0),
                P(20, 0), P(100, 0), P(103, 0)}
\* the configuration objects: with a blend mode, and as the grid module
\* gives them, with options and no blend mode
ProbeConfigs ==
  {[center |-> c, radius |-> r, blendMode |-> m] :
     c \in ProbeCenters, r \in ProbeRadii, m \in BlendModes}
  \cup {[center |-> c, radius |-> r, options |-> NoOptions] :
          c \in ProbeCenters, r \in ProbeRadii}
\* the domains the factory constructs
FactoryDomains ==
  {createDomain(type, config).value : type \in RecognizedTypes, config \in ProbeConfigs}
\* the domains of a two-domain composition
PairDomains ==
  {createDomain(type, config).value :
     type \in {"spherical", "noise"},
     config \in {c \in ProbeConfigs : c.center = P(0, 0) /\ "blendMode" \in DOMAIN c}}

\* createDomain(type, config)
CreateDomainCall(type, config) ==
  /\ probe.op = "none"
  /\ probe' = [op |-> "createDomain", type |-> type, config |-> config,
               result |-> createDomain(type, config)]
  /\ UNCHANGED gridVars
  /\ UNCHANGED sideVars

\* domain.weightAt(point)
WeightAtCall(domain, point) ==
  /\ probe.op = "none"
  /\ probe' = [op |-> "weightAt", domain |-> domain, point |-> point,
               weight |-> weightAt(domain, point)]
  /\ UNCHANGED gridVars
  /\ UNCHANGED sideVars

\* calculateBlendingWeights(point) over the domains given, nothing cached
BlendingWeightsCall(domains, point) ==
  /\ probe.op = "none"
  /\ probe' = [op |-> "calculateBlendingWeights", domains |-> domains, point |-> point,
               result |-> computeBlendingWeights(domains, point)]
  /\ UNCHANGED gridVars
  /\ UNCHANGED sideVars

\* a configuration object giving every property of the interface
FullConfigs ==
  {[center |-> P(3, 0), radius |-> 5 * SCALE, amplitude |-> 2 * SCALE,
    blendMode |-> "linear", options |-> NoOptions]}
CallCreateDomain == \E type \in TypeValues, config \in ProbeConfigs \cup FullConfigs :
                      CreateDomainCall(type, config)
CallWeightAt == \E domain \in FactoryDomains, point \in ProbePoints :
                  WeightAtCall(domain, point)
CallBlendingWeights ==
  \E d1 \in FactoryDomains, d2 \in PairDomains, n \in 1..2, point \in ProbePoints :
    BlendingWeightsCall(IF n = 1 THEN <<d1>> ELSE <<d1, d2>>, point)

NextDomains ==
  \/ CallCreateDomain
  \/ CallWeightAt
  \/ CallBlendingWeights

SpecDomains == Init /\ [][NextDomains]_vars

\* ------------------------------------------------------------------------
\* Blending weights and the factory
\* ------------------------------------------------------------------------
\* a weight within [0, 1]
UnitWeight(w) == ~IsNaN(w) /\ 0 <= w /\ w <= ONE
\* the sum of the domains' weights at the point
RECURSIVE SumOfWeights(_, _)
SumOfWeights(domains, point) ==
  IF domains = << >> THEN 0
  ELSE Add(weightAt(Head(domains), point), SumOfWeights(Tail(domains), point))

\* C8: for domains the factory constructs, each weight weightAt returns lies
\* in [0, 1], and the flat weight calculateBlendingWeights computes is
\* max(0, 1 - the sum of the domain weights) and lies in [0, 1].
C8_WeightsWithinUnit ==
  /\ probe.op = "weightAt" => UnitWeight(probe.weight)
  /\ probe.op = "calculateBlendingWeights" =>
       /\ \A i \in 1..Len(probe.domains) :
            /\ probe.result.transformWeights[i].weight = weightAt(probe.domains[i], probe.point)
            /\ UnitWeight(probe.result.transformWeights[i].weight)
       /\ probe.result.flatWeight = Max(0, ONE - SumOfWeights(probe.domains, probe.point))
       /\ UnitWeight(probe.result.flatWeight)
\* two overlapping domains whose weights sum to more than 1, one of them
\* linear with a weight strictly between 0 and 1
C8_Witness ==
  /\ probe.op = "calculateBlendingWeights"
  /\ Len(probe.domains) = 2
  /\ SumOfWeights(probe.domains, probe.point) > ONE
  /\ probe.result.flatWeight = 0
  /\ \E i \in 1..2 :
       /\ probe.domains[i].blendMode = "linear"
       /\ probe.result.transformWeights[i].weight \in 1..(ONE - 1)

\* the distance of the point from the domain's center
DistanceFrom(domain, point) ==
  Hypot(point.x - domain.center.x, point.y - domain.center.y)

\* C9: weightAt(center) is 1 in each blend mode, and weightAt of a point at
\* distance radius from the center is 0 in each blend mode.
C9_WeightAtCenterAndRadius ==
  probe.op = "weightAt" =>
    /\ probe.point = probe.domain.center => probe.weight = ONE
    /\ DistanceFrom(probe.domain, probe.point) = probe.domain.radius => probe.weight = 0

\* the classes of the domains
DomainClasses ==
  {"SphericalDomain", "CylindricalDomain", "ConicDomain", "NoiseDomain", "HarmonicDomain",
   "GaussianCurvatureDomain"}

\* C10: createDomain returns a domain for each of the six recognized types
\* and throws, returning nothing, for every other type value.
C10_FactoryRecognizedTypes ==
  probe.op = "createDomain" =>
    IF probe.type \in RecognizedTypes
    THEN ~probe.result.threw /\ probe.result.value.cls \in DomainClasses
    ELSE probe.result.threw

\* the properties of a configuration object the Domain constructor reads
ConfigFields == {"center", "radius", "amplitude", "blendMode"}

\* C11: for each of the six recognized types, the domain createDomain(type,
\* config) returns carries the type and every center, radius, amplitude and
\* blend mode the caller's configuration gives (a positive radius).
C11_FactoryCarriesConfig ==
  (probe.op = "createDomain" /\ probe.type \in RecognizedTypes
     /\ probe.config.radius > 0) =>
    /\ ~probe.result.threw
    /\ probe.result.value.type = probe.type
    /\ \A name \in ConfigFields \cap DOMAIN probe.config :
         probe.result.value[name] = probe.config[name]

\* ------------------------------------------------------------------------
\* The engine: forward and inverse transform, grid size, snapping
\* ------------------------------------------------------------------------
\* the one active domain is the spherical domain and the engine is
\* configured with the blend mode
OneSpherical(mode) ==
  /\ Len(transformationDomains) = 1
  /\ transformationDomains[1].cls = "SphericalDomain"
  /\ mergedParams.transformations.blendMode = mode
\* the x and y of a point
Planar(p) == [x |-> p.x, y |-> p.y]

\* C12: with one active spherical domain and blend mode sharp,
\* transformPoint(p) of a point strictly inside the radius is the domain's
\* stereographic projection of p, and transformPoint(p) of a point outside
\* the radius is p.
C12_SharpSphericalScenario ==
  (probe.op = "transformPoint" /\ OneSpherical("sharp")) =>
    IF DistanceFrom(transformationDomains[1], probe.point) < transformationDomains[1].radius
    THEN probe.result = Planar(transform(transformationDomains[1], probe.point, 1))
    ELSE DistanceFrom(transformationDomains[1], probe.point) > transformationDomains[1].radius
           => probe.result = probe.point


\* ------------------------------------------------------------------------
\* Removal by id
\* ------------------------------------------------------------------------
\* the ids of the active domains
activeIds(domains) == {domains[i].id : i \in 1..Len(domains)}
\* the domains other than those with the id, in their order
others(domains, domainId) == SelectSeq(domains, LAMBDA d : d.id # domainId)

WithinTolerance(a, b) ==
  /\ ~IsNaN(a.x)
  /\ ~IsNaN(a.y)
  /\ Hypot(a.x - b.x, a.y - b.y) <= tolerance

\* C14: with a single active domain (its amplitude is the constructor's
\* default, 0), for every point p, inverseTransformPoint(transformPoint(p))
\* lies within the inversion tolerance (0.1) of p.
C14_RoundTripWithinTolerance ==
  (probe.op = "roundTrip" /\ Len(transformationDomains) = 1) =>
    /\ ~probe.result.threw
    /\ WithinTolerance(probe.result.value, probe.point)


\* ------------------------------------------------------------------------
\* The effective grid size
\* ------------------------------------------------------------------------
\* C15: for every point, every set of active domains and every positive
\* base size, the effective grid size is at least 0.2 * baseSize; with zero
\* active domains it is exactly baseSize.
C15_GridSizeFloor ==
  /\ probe.op = "calculateGridSize" =>
       /\ ~probe.result.threw
       /\ ~IsNaN(probe.result.value)
       /\ 5 * probe.result.value >= probe.baseSize
       /\ probe.configs = << >> => probe.result.value = probe.baseSize
  /\ probe.op = "calculateEffectiveGridSize" =>
       /\ ~probe.result.threw
       /\ 5 * probe.result.value >= probe.baseSize
       /\ transformationDomains = << >> => probe.result.value = probe.baseSize

\* three domains of weight 1 at the point: the size is the lower bound
C15_Witness ==
  /\ probe.op = "calculateGridSize"
  /\ Len(probe.configs) = 3
  /\ ~probe.result.threw
  /\ 5 * probe.result.value = probe.baseSize
  /\ unboundedGridSize(managerDomains(addDomains(probe.configs)), probe.point,
                       probe.baseSize) < probe.result.value


\* ------------------------------------------------------------------------
\* Snapping
\* ------------------------------------------------------------------------
SnappingCalls == {"snapToGridPoint", "snapTransformedPoint", "snapToGridIntersection"}

\* C16: if snapping is disabled or the snap mode is none, snapTransformedPoint
\* (and snapToGridPoint, snapToGridIntersection) returns a point with exactly
\* the input coordinates and invokes none of the inverse-transform, grid-size
\* and forward-transform functions; the grid's snapToGrid returns the point
\* unchanged when its snapToGrid parameter is false.
C16_SnapOffReturnsInput ==
  /\ (probe.op \in SnappingCalls /\ (~settings.enabled \/ settings.mode = "none")) =>
       /\ probe.result = probe.point
       /\ probe.invoked = << >>
  /\ (probe.op = "snapToGrid" /\ ~mergedParams.grid.snapToGrid) =>
       /\ probe.result = probe.point
       /\ probe.invoked = << >>

\* snapTransformedPoint called in mode none with a point the default
\* settings would move
C16_Witness ==
  /\ probe.op = "snapTransformedPoint"
  /\ settings.enabled
  /\ settings.mode = "none"
  /\ probe.result = probe.point
  /\ snapTransformedPoint(defaultSettings, probe.point, probe.transformFn, probe.inverseFn,
                          probe.effectiveGridSizeFn) # probe.point


\* v is a multiple of gridSize within half a gridSize of the coordinate
NearestMultiple(v, coordinate, gridSize) ==
  /\ v % gridSize = 0
  /\ 2 * Abs(v - coordinate) <= gridSize
\* the multiples of a grid size the points of the model lie between
Multiples == (0 - 4)..4
\* the point is the original-space point with each coordinate rounded to a
\* nearest multiple of the grid size
RoundedTo(point, original, gridSize) ==
  /\ NearestMultiple(point.x, original.x, gridSize)
  /\ NearestMultiple(point.y, original.y, gridSize)

C18_SettingsTyped ==
  /\ settings.enabled \in BOOLEAN
  /\ settings.mode \in SNAP_MODES
  /\ Le(0, settings.snapStrength)
  /\ Le(settings.snapStrength, ONE)


\* ------------------------------------------------------------------------
\* The setters that clamp
\* ------------------------------------------------------------------------
\* C19: for every numeric argument setZoomLevel never fails, and in every
\* reachable state the stored and returned zoom level lies in [0.1, 10].
C19_ZoomWithinRange ==
  /\ Le(SCALE \div 10, zoomLevel)
  /\ Le(zoomLevel, 10 * SCALE)


\* C20: after module construction and after any sequence of setSnapIntensity
\* and updateParameters calls with numeric intensities, the stored
\* snapIntensity lies in [0,1].
C20_SnapIntensityWithinUnit ==
  /\ Le(0, snapIntensity)
  /\ Le(snapIntensity, ONE)


\* ------------------------------------------------------------------------
\* The points returned
\* ------------------------------------------------------------------------
\* C21: every call returns an object of its own, so that writing to a
\* returned point changes the result of no later call: transformPoint(p)
\* returns the value computed against the active domains, whatever the
\* callers did with the points returned before.
C21_ReturnedPointsNotAliased ==
  [][\A point \in AliasPoints :
       TransformPointCall(point) =>
         probe'.result = fromScratch(transformationDomains, point)]_vars


\* ------------------------------------------------------------------------
\* The grid cells
\* ------------------------------------------------------------------------
\* the cells generateGridCells() returns in this state
cellsReturned ==
  generateGridCells(cache, transformationDomains, viewportDimensions, mergedParams.grid.size)
\* each transformed corner of the cells is transformPoint of its original
\* corner under the domains
CellsCurrent(cells, domains) ==
  \A k \in 1..Len(cells) : \A j \in 1..4 :
    cells[k].transformed[j] = fromScratch(domains, cells[k].original[j])

\* C22: generateGridCells never returns geometry computed against an earlier
\* registry: in every state where the point caches are current, the
\* transformed corners of every cell it returns equal transformPoint of the
\* cell's original corners under the current domain sequence.
C22_GridCellsCurrent ==
  C4_PointCachesCurrent => CellsCurrent(cellsReturned, transformationDomains)


\* ------------------------------------------------------------------------
\* The inverse transform
\* ------------------------------------------------------------------------
\* the k-th domain of the call kept
Registered(k) == createDomain(probe.configs[k].type, probe.configs[k]).value

\* the inverses of the domains k, k + 1, ... composed: the inverse of domain k
\* applied to what the inverses of the domains after it make of the point
RECURSIVE inversesFrom(_, _)
inversesFrom(k, point) ==
  IF k > Len(probe.configs) THEN point
  ELSE inverse(Registered(k), inversesFrom(k + 1, point))

\* C23: inverseTransformPoint composes the per-domain inverses in reverse
\* registration order: the last-registered domain's inverse is applied to
\* the input first, the first-registered domain's inverse last, each
\* domain's inverse exactly once.
C23_InverseInReverseOrder ==
  probe.op = "inverseTransformPointWithDomains" =>
    /\ ~probe.result.threw
    /\ probe.result.value = inversesFrom(1, probe.point)
    /\ Len(probe.configs) = 2 =>
         probe.result.value = inverse(Registered(1), inverse(Registered(2), probe.point))

\* two domains whose inverses do not commute at the point
C23_Witness ==
  /\ probe.op = "inverseTransformPointWithDomains"
  /\ Len(probe.configs) = 2
  /\ ~probe.result.threw
  /\ probe.result.value # inverse(Registered(2), inverse(Registered(1), probe.point))


\* an inverse is being computed / has returned
Iterating == probe.op = "iterativeInverse" /\ probe.status = "running"
Iterated == probe.op = "iterativeInverse" /\ probe.status = "returned"
\* the residual at the guess kept is below the tolerance
Converged == belowTolerance(residual(probe.domain, probe.target, probe.guess))
\* the budget and the frame of a call: at most 50 forward transforms, the
\* target as given, a return at a residual below the tolerance or at the
\* end of the budget, the value returned a point
WithinBudget ==
  probe.op = "iterativeInverse" =>
    /\ probe.evaluations <= 50
    /\ probe.target = probe.given
    /\ DOMAIN probe.guess = {"x", "y"}
    /\ Iterated => (Converged \/ probe.evaluations = 50)
    /\ (Iterating /\ probe.evaluations = 0) => probe.guess = probe.given
\* one step: a return with the guess as it was where the residual is below
\* the tolerance, the guess moved by half the residual otherwise
HalfResidualStep ==
  (IterateStep /\ probe.evaluations < 50) =>
    IF Converged
    THEN probe'.status = "returned" /\ probe'.guess = probe.guess
    ELSE /\ probe'.status = "running"
         /\ probe'.evaluations = probe.evaluations + 1
         /\ \/ IsNaN(probe'.guess.x)
            \/ Abs(2 * (probe'.guess.x - probe.guess.x)
                     - residual(probe.domain, probe.target, probe.guess).dx) <= 1
         /\ \/ IsNaN(probe'.guess.y)
            \/ Abs(2 * (probe'.guess.y - probe.guess.y)
                     - residual(probe.domain, probe.target, probe.guess).dy) <= 1

\* C24: the iterative inverse always terminates: starting from the target
\* as the initial guess it evaluates the forward transform at most 50 times,
\* stops at the first iteration whose residual is below the tolerance 0.1
\* with the guess unchanged by that iteration, otherwise moves the guess by
\* half the residual, and at the end of the budget returns the guess as a
\* value, the target not modified.
C24_IterativeInverseTerminates ==
  /\ []WithinBudget
  /\ [][HalfResidualStep]_vars
  /\ Iterating ~> Iterated

\* the budget is exhausted: 50 forward transforms and no residual below the
\* tolerance
C24_Witness ==
  /\ Iterated
  /\ probe.evaluations = 50
  /\ ~Converged


\* the domains of the manager a call builds, and those of nonzero weight at
\* the point, by their positions
sized == managerDomains(addDomains(probe.configs))
weighing == {i \in 1..Len(sized) : weightAt(sized[i], probe.point) # 0}
\* curvatureFactor(point) * (1 - w) + (1 - w/2) * w of the domain at i
factorAt(i) ==
  Value({Add(Mul(curvatureFactor(sized[i], probe.point), Sub(ONE, w)),
             Mul(Sub(ONE, Mul(w, HALF)), w)) :
           w \in {weightAt(sized[i], probe.point)}})
\* the product of the factors of the positions in S, in the order of the list
RECURSIVE productOver(_)
productOver(S) ==
  IF S = {} THEN ONE
  ELSE Value({Mul(productOver(S \ {last}), factorAt(last)) :
                last \in {CHOOSE i \in S : \A j \in S : j <= i}})

\* C25: the effective grid size equals max(0.2 * baseSize, baseSize * M),
\* where M is the product, over exactly the domains whose weight w at the
\* point is nonzero, of curvatureFactor(point) * (1 - w) + (1 - w/2) * w;
\* the domains of weight zero contribute no factor.
C25_GridSizeIsProductOfWeighing ==
  probe.op = "calculateGridSize" =>
    /\ ~probe.result.threw
    /\ probe.result.value =
         Max(RDiv(probe.baseSize, 5), Mul(probe.baseSize, productOver(weighing)))

\* three domains, one of weight zero at the point between two that weigh,
\* and a size above the lower bound
C25_Witness ==
  /\ probe.op = "calculateGridSize"
  /\ Len(probe.configs) = 3
  /\ weighing = {1, 3}
  /\ ~probe.result.threw
  /\ 5 * probe.result.value > probe.baseSize
  /\ probe.result.value < probe.baseSize


\* the candidates within the tolerance of the point, by their positions, and
\* the distance of the candidate at i
candidates ==
  {i \in 1..Len(probe.gridPoints) :
     Le(gridDistance(probe.point, probe.gridPoints[i]), settings.tolerance)}
candidateDistance(i) == gridDistance(probe.point, probe.gridPoints[i])
\* the first of the candidates at the least distance
chosen ==
  CHOOSE i \in candidates :
    \A j \in candidates :
      /\ candidateDistance(i) <= candidateDistance(j)
      /\ candidateDistance(j) = candidateDistance(i) => i <= j
\* point + strength * (candidate - point)
towards(point, candidate, strength) ==
  [x |-> point.x + Mul(candidate.x - point.x, strength),
   y |-> point.y + Mul(candidate.y - point.y, strength)]

\* C26: intersection snap, enabled and the mode not none: with no candidate
\* grid point within the tolerance of the point the point is returned
\* unchanged; otherwise the candidate chosen is one at the least distance
\* among those within the tolerance, the first in list order on ties, and
\* the result is that candidate when the snap strength is >= 1 and
\* point + strength * (candidate - point) otherwise; neither the transform
\* nor the inverse function is called.
C26_IntersectionSnapsToNearest ==
  (probe.op = "snapToGridIntersection" /\ settings.enabled /\ settings.mode # "none") =>
    /\ probe.invoked = << >>
    /\ probe.result =
         IF candidates = {} THEN probe.point
         ELSE IF settings.snapStrength >= ONE THEN probe.gridPoints[chosen]
         ELSE towards(probe.point, probe.gridPoints[chosen], settings.snapStrength)

\* two candidates at the least distance: the first of them attracts the
\* point half of the way
C26_Witness ==
  /\ probe.op = "snapToGridIntersection"
  /\ settings.enabled /\ settings.mode # "none"
  /\ settings.snapStrength = HALF
  /\ \E i \in candidates, j \in candidates :
       i < j /\ chosen = i /\ candidateDistance(j) = candidateDistance(i)
  /\ probe.result # probe.point
  /\ probe.result # probe.gridPoints[chosen]


\* ------------------------------------------------------------------------
\* A create that fails, and the ids of the domains
\* ------------------------------------------------------------------------
\* C27: a createTransformationDomain call that fails because the domain type
\* is not recognized has no effect on the engine: the sequence of active
\* domains is after the failed call as it was before, also when the registry
\* was at capacity, and every cached transform result still corresponds to
\* the active domains.
C27_FailedCreateHasNoEffect ==
  [][\A center \in Centers, radius \in Radii, type \in CreateTypes \ RecognizedTypes,
        options \in OptionValues :
       CreateTransformationDomain(center, radius, type, options) =>
         /\ transformationDomains' = transformationDomains
         /\ C4_PointCachesCurrent => C4_PointCachesCurrent']_vars

\* no two active domains have the same id
DistinctIds ==
  \A i \in 1..Len(transformationDomains), j \in 1..Len(transformationDomains) :
    i # j => transformationDomains[i].id # transformationDomains[j].id

\* C28: the ids of the active domains are pairwise distinct in every
\* reachable state, however closely in time the domains were created, so
\* that a successful removeTransformationDomain(id) removes exactly one
\* domain and shortens the registry by exactly one.
C28_DomainIdsDistinct ==
  /\ []DistinctIds
  /\ [][\A domainId \in 0..MaxClock :
          (/\ RemoveTransformationDomain(domainId)
           /\ removeTransformationDomain(transformationDomains, domainId)) =>
            Len(transformationDomains') = Len(transformationDomains) - 1]_vars


\* ------------------------------------------------------------------------
\* Inversion and snapping where no domain acts
\* ------------------------------------------------------------------------
\* every active domain has weight 0 at the point
NoDomainActs(point) ==
  \A i \in 1..Len(transformationDomains) : weightAt(transformationDomains[i], point) = 0
\* the point rounded to the multiples of the effective grid size at it
PlainRounding(point) ==
  [x |-> snapCoordinate(point.x, effectiveGridSize(point).value),
   y |-> snapCoordinate(point.y, effectiveGridSize(point).value)]

\* C29: inversion is exact where no domain acts: for every point p at which
\* every active domain has weight 0, inverseTransformPoint(p) returns p, and
\* snapToGrid(p) equals the plain rounding of p to the effective grid.
C29_InverseExactWhereNoDomainActs ==
  /\ (probe.op = "inverseTransformPoint" /\ NoDomainActs(probe.point)) =>
       /\ ~probe.result.threw
       /\ probe.result.value = probe.point
  /\ (probe.op = "snapToGrid" /\ NoDomainActs(probe.point)
        /\ mergedParams.grid.snapToGrid) =>
       probe.result = PlainRounding(probe.point)

\* C30: grid snapping is idempotent when no domain is active: with snapping
\* enabled in grid mode and an empty registry,
\* snapToGrid(snapToGrid(p)) = snapToGrid(p) for every point p and every
\* positive grid size.
C30_SnapToGridIdempotent ==
  (/\ probe.op = "snapToGridAgain"
   /\ transformationDomains = << >>
   /\ mergedParams.grid.snapToGrid
   /\ mergedParams.grid.size > 0) =>
    probe.result = probe.first

====
